---------------------------- MODULE Spec2Model ----------------------------
(***************************************************************************)
(* Model of src/sudoku.rs: a Sudoku solver that searches by backtracking   *)
(* and spawns threads at branch points under a thread quota.               *)
(*                                                                         *)
(* The board is modelled at sub-board width SUB (the source's 3), so the   *)
(* board is DIM x DIM with DIM = SUB * SUB (the source's 9) and values     *)
(* 1..DIM.  Every loop bound of the source that is 9 is DIM here and every *)
(* one that is 3 is SUB.                                                   *)
(***************************************************************************)
EXTENDS Integers, Sequences, FiniteSets, TLC

\* sub_board_offset divides by 3 and the sub-board loops run 0..3; 2 here.
SUB == 2

\* 9 in the source: rows, columns, values, length of `possible`.
DIM == SUB * SUB

\* At most this many characters of the input, beyond the clues of BaseInput, are clues.
MaxClues == 1

\* max_threads (the command line argument num_threads) ranges over 1..MaxThreads.
MaxThreads == 2

Idx == 0 .. (DIM - 1)

(***************************************************************************)
(* State and Square                                                        *)
(***************************************************************************)

\* Square { solution: 0, num_possible: 9, possible: [true; 9] }
NewSquare == [solution |-> 0, num_possible |-> DIM, possible |-> [i \in Idx |-> TRUE]]

\* State { unsolved_squares: 81, board: [[Square; 9]; 9] }
NewState == [unsolved_squares |-> DIM * DIM, board |-> [r \in Idx |-> [c \in Idx |-> NewSquare]]]

\* Square::is_valid
is_valid(sq) == sq.solution > 0 \/ sq.num_possible > 0

\* State::sub_board_offset
sub_board_offset(index) == index \div SUB

\* State::remove_possibility, on the square it touches: the square after the call.
\* The value it returns is is_valid of that square.
remove_possibility(peer_cell, solution) ==
    LET possibility_idx == solution - 1
    IN  IF peer_cell.possible[possibility_idx]
        THEN [peer_cell EXCEPT !.num_possible = @ - 1, !.possible[possibility_idx] = FALSE]
        ELSE peer_cell

\* visit_order without the loop over the column.
visit_order_without_column(target_row, target_col) ==
    [k \in 1 .. (2 * DIM) |->
        IF k <= DIM THEN <<target_row, k - 1>>
        ELSE <<sub_board_offset(target_row) * SUB + ((k - DIM - 1) \div SUB),
               sub_board_offset(target_col) * SUB + ((k - DIM - 1) % SUB)>>]

\* visit_order without the loops over the sub-board.
visit_order_without_sub_board(target_row, target_col) ==
    [k \in 1 .. (2 * DIM) |->
        IF k <= DIM THEN <<target_row, k - 1>> ELSE <<k - DIM - 1, target_col>>]

\* The squares propagate_solution visits, in the order of its three loops:
\* across the row, up and down the column, throughout the sub-board.
visit_order(target_row, target_col) ==
    [k \in 1 .. (3 * DIM) |->
        IF k <= DIM THEN <<target_row, k - 1>>
        ELSE IF k <= 2 * DIM THEN <<k - DIM - 1, target_col>>
        ELSE <<sub_board_offset(target_row) * SUB + ((k - 2 * DIM - 1) \div SUB),
               sub_board_offset(target_col) * SUB + ((k - 2 * DIM - 1) % SUB)>>]

\* The three clearing loops of propagate_solution on the state `set`, where the
\* target square already holds its solution.  The loops call remove_possibility on
\* the squares of `order` and return false at the first call that returns false:
\* the squares visited up to there have lost `solution`, the later ones are
\* untouched.  (The intermediate values are bound once, as elements of singletons.)
clear_visited(set, order, solution) ==
    CHOOSE result \in
        {[state |-> [set EXCEPT !.board =
                        [r \in Idx |-> [c \in Idx |->
                            IF \E k \in 1 .. Len(order) :
                                   order[k] = <<r, c>> /\ \A m \in failing : k <= m
                            THEN remove_possibility(set.board[r][c], solution)
                            ELSE set.board[r][c]]]],
          ok |-> failing = {}] :
            failing \in {{k \in 1 .. Len(order) :
                ~is_valid(remove_possibility(set.board[order[k][1]][order[k][2]], solution))}}}
        : TRUE

\* propagate_solution without `self.unsolved_squares -= 1`.
propagate_solution_keeping_count(st, target_row, target_col, solution) ==
    CHOOSE result \in
        {clear_visited(set, order, solution) :
            set \in {[st EXCEPT !.board[target_row][target_col] =
                                   [solution |-> solution, num_possible |-> 0,
                                    possible |-> [i \in Idx |-> FALSE]]]},
            order \in {visit_order(target_row, target_col)}} : TRUE

\* State::propagate_solution: [state |-> the state left behind, ok |-> the value returned].
propagate_solution(st, target_row, target_col, solution) ==
    CHOOSE result \in
        {clear_visited(set, order, solution) :
            set \in {[st EXCEPT !.unsolved_squares = @ - 1,
                               !.board[target_row][target_col] =
                                   [solution |-> solution, num_possible |-> 0,
                                    possible |-> [i \in Idx |-> FALSE]]]},
            order \in {visit_order(target_row, target_col)}} : TRUE

(***************************************************************************)
(* Input                                                                   *)
(***************************************************************************)

\* populate_board_using_input from input position k on (row-major).  An input is a
\* sequence of DIM*DIM characters, written 0 for a character outside '1'..'9' and v
\* for the digit v.  ok = FALSE: the assert! around propagate_solution failed.
RECURSIVE populate_from(_, _, _)
populate_from(st, inp, k) ==
    IF k > DIM * DIM THEN [state |-> st, ok |-> TRUE]
    ELSE LET i == (k - 1) \div DIM
             j == (k - 1) % DIM
         IN  IF inp[k] >= 1 /\ inp[k] <= DIM
             THEN LET r == propagate_solution(st, i, j, inp[k])
                  IN  IF r.ok THEN populate_from(r.state, inp, k + 1)
                      ELSE [state |-> r.state, ok |-> FALSE]
             ELSE populate_from(st, inp, k + 1)

populate_board_using_input(inp) == populate_from(NewState, inp, 1)

\* The clues every input of the model shares: the puzzle
\*     1 . . 4
\*     . 4 1 2
\*     . 1 . 3
\*     . . . 1
BaseInput == <<1, 0, 0, 4,  0, 4, 1, 2,  0, 1, 0, 3,  0, 0, 0, 1>>

FreePositions == {k \in 1 .. (DIM * DIM) : BaseInput[k] = 0}

\* The inputs: the base puzzle with at most MaxClues further characters made clues.
Inputs ==
    UNION {{[k \in 1 .. (DIM * DIM) |-> IF k \in S THEN f[k] ELSE BaseInput[k]] :
                f \in [S -> 1 .. DIM]} :
           S \in {T \in SUBSET FreePositions : Cardinality(T) <= MaxClues}}

(***************************************************************************)
(* Program state                                                           *)
(***************************************************************************)

VARIABLES
    input,                \* the line read from stdin
    max_threads,          \* num_threads, passed down as max_threads
    phase,                \* where main() is: "populate", "solve", "aborted", "exited"
    threads,              \* threads[1] is the main thread, the others are the spawned ones, in spawn order
    THREAD_QUOTA_IN_USE,  \* static AtomicIsize
    EXECUTION_CANCELLED,  \* static AtomicBool
    output                \* the boards print_board has written, in order

vars == <<input, max_threads, phase, threads, THREAD_QUOTA_IN_USE, EXECUTION_CANCELLED, output>>

\* The activation of parallel_solve(state, row, col, max_threads), and of the
\* parallel_solve_impl it ends in, with their locals.
NewFrame(st, row, col) ==
    [state |-> st, row |-> row, col |-> col, pc |-> "cancel_check",
     extra_threads_available |-> 0, overflow |-> 0, sln_idx |-> 0,
     child_threads |-> <<>>]

NewThread(st, row, col) ==
    [stack |-> <<NewFrame(st, row, col)>>, status |-> "running", result |-> FALSE]

Front(s) == SubSeq(s, 1, Len(s) - 1)

Top(t) == threads[t].stack[Len(threads[t].stack)]

Below(t) == Front(threads[t].stack)

\* first_unsolved with the scan starting one square too far.
first_unsolved_past_start(st, row, col) ==
    LET open == {n \in (row * DIM + col + 1) .. (DIM * DIM - 1) :
                     st.board[n \div DIM][n % DIM].solution = 0}
    IN  IF open = {} THEN DIM * DIM
        ELSE CHOOSE n \in open : \A m \in open : n <= m

\* The scan of parallel_solve from (row, col): the first square in row-major order,
\* at or after the resumption point, that has no solution; DIM * DIM if the loops
\* run off the board.  Squares are numbered row * DIM + col.
first_unsolved(st, row, col) ==
    LET open == {n \in (row * DIM + col) .. (DIM * DIM - 1) :
                     st.board[n \div DIM][n % DIM].solution = 0}
    IN  IF open = {} THEN DIM * DIM
        ELSE CHOOSE n \in open : \A m \in open : n <= m

\* The next sln_idx at or after frame.sln_idx that the for loop of
\* parallel_solve_impl does not skip; DIM when the loop is over.
next_possible(frame) ==
    LET sq == frame.state.board[frame.row][frame.col]
        live == {i \in frame.sln_idx .. (DIM - 1) : sq.possible[i]}
    IN  IF live = {} THEN DIM ELSE CHOOSE i \in live : \A j \in live : i <= j

\* returned without backtracking: a failed candidate fails the whole branch.
RECURSIVE returned_first_candidate_only(_, _)
returned_first_candidate_only(stack, val) ==
    IF stack = <<>> THEN [stack |-> <<>>, done |-> TRUE, result |-> val]
    ELSE returned_first_candidate_only(Front(stack), val)

\* Control after a callee returned val to the activations in `stack` (returned) and
\* after the for loop of the activation `frame` moved to frame.sln_idx (continued):
\* thread-local steps up to the next access to shared state.
RECURSIVE returned(_, _), continued(_, _)
returned(stack, val) ==
    IF stack = <<>> THEN [stack |-> <<>>, done |-> TRUE, result |-> val]
    ELSE LET top == stack[Len(stack)]
         IN  IF val
             THEN \* line 199-201: a sequential candidate succeeded
                  returned(Front(stack), TRUE)
             ELSE continued(Front(stack), [top EXCEPT !.sln_idx = @ + 1])
continued(rest, frame) ==
    LET i == next_possible(frame)
    IN  IF i < DIM
        THEN [stack |-> Append(rest, [frame EXCEPT !.sln_idx = i, !.pc = "loop"]),
              done |-> FALSE, result |-> FALSE]
        ELSE IF frame.child_threads = <<>>
        THEN \* line 211: nothing to join
             returned(rest, FALSE)
        ELSE [stack |-> Append(rest, [frame EXCEPT !.sln_idx = DIM, !.pc = "join"]),
              done |-> FALSE, result |-> FALSE]

\* The thread th after the thread-local steps r.
Resume(th, r) ==
    IF r.done THEN [th EXCEPT !.stack = <<>>, !.status = "returned", !.result = r.result]
    ELSE [th EXCEPT !.stack = r.stack]

\* What print_board writes: the count and the solution of every square.
Printed(st) ==
    [unsolved_squares |-> st.unsolved_squares,
     board |-> [r \in Idx |-> [c \in Idx |-> st.board[r][c].solution]]]

Running(t) ==
    /\ phase = "solve"
    /\ t \in 1 .. Len(threads)
    /\ threads[t].status = "running"

(***************************************************************************)
(* Initial state and actions                                               *)
(***************************************************************************)

Init ==
    /\ input \in Inputs
    /\ max_threads \in 1 .. MaxThreads
    /\ phase = "populate"
    /\ threads = <<>>
    /\ THREAD_QUOTA_IN_USE = 1
    /\ EXECUTION_CANCELLED = FALSE
    /\ output = <<>>

\* main, lines 15-26: populate the givens, then call parallel_solve(state, 0, 0, num_threads).
\* A failed assert! in populate_board_using_input aborts the process.
Populate ==
    /\ phase = "populate"
    /\ \E r \in {populate_board_using_input(input)} :
           IF r.ok
           THEN /\ phase' = "solve"
                /\ threads' = <<NewThread(r.state, 0, 0)>>
           ELSE /\ phase' = "aborted"
                /\ threads' = threads
    /\ UNCHANGED <<input, max_threads, THREAD_QUOTA_IN_USE, EXECUTION_CANCELLED, output>>

\* CancelCheck with the dead-end of line 143 returning true.
CancelCheckDeadEndSucceeds(t) ==
    /\ Running(t)
    /\ Top(t).pc = "cancel_check"
    /\ \E cancelled \in {EXECUTION_CANCELLED, FALSE} :
        LET f == Top(t)
            n == first_unsolved(f.state, f.row, f.col)
        IN  threads' = [threads EXCEPT ![t] =
                IF cancelled THEN Resume(@, returned(Below(t), FALSE))
                ELSE IF f.state.unsolved_squares > 0
                THEN IF n = DIM * DIM
                     THEN [@ EXCEPT !.status = "panicked"]
                     ELSE IF ~is_valid(f.state.board[n \div DIM][n % DIM])
                     THEN Resume(@, returned(Below(t), TRUE))
                     ELSE [@ EXCEPT !.stack = Append(Below(t),
                              [f EXCEPT !.row = n \div DIM, !.col = n % DIM, !.pc = "reserve"])]
                ELSE [@ EXCEPT !.stack = Append(Below(t), [f EXCEPT !.pc = "print"])]]
    /\ UNCHANGED <<input, max_threads, phase, THREAD_QUOTA_IN_USE, EXECUTION_CANCELLED, output>>

\* parallel_solve, lines 130-149 and 157-158: load the flag, then scan for the next square.
\* The load is Relaxed: while the flag is set, a thread may still read false.
CancelCheck(t) ==
    /\ Running(t)
    /\ Top(t).pc = "cancel_check"
    /\ \E cancelled \in {EXECUTION_CANCELLED, FALSE} :
        LET f == Top(t)
            n == first_unsolved(f.state, f.row, f.col)
        IN  threads' = [threads EXCEPT ![t] =
                IF cancelled THEN Resume(@, returned(Below(t), FALSE))
                ELSE IF f.state.unsolved_squares > 0
                THEN IF n = DIM * DIM
                     THEN \* assert!(false)
                          [@ EXCEPT !.status = "panicked"]
                     ELSE IF ~is_valid(f.state.board[n \div DIM][n % DIM])
                     THEN Resume(@, returned(Below(t), FALSE))
                     ELSE [@ EXCEPT !.stack = Append(Below(t),
                              [f EXCEPT !.row = n \div DIM, !.col = n % DIM, !.pc = "reserve"])]
                ELSE [@ EXCEPT !.stack = Append(Below(t), [f EXCEPT !.pc = "print"])]]
    /\ UNCHANGED <<input, max_threads, phase, THREAD_QUOTA_IN_USE, EXECUTION_CANCELLED, output>>

\* PrintBoard with the call of print_board left out.
PrintBoardOmitted(t) ==
    /\ Running(t)
    /\ Top(t).pc = "print"
    /\ threads' = [threads EXCEPT ![t].stack = Append(Below(t), [Top(t) EXCEPT !.pc = "store"])]
    /\ UNCHANGED <<input, max_threads, phase, THREAD_QUOTA_IN_USE, EXECUTION_CANCELLED, output>>

\* parallel_solve, line 152.
PrintBoard(t) ==
    /\ Running(t)
    /\ Top(t).pc = "print"
    /\ output' = Append(output, [by |-> t, printed |-> Printed(Top(t).state)])
    /\ threads' = [threads EXCEPT ![t].stack = Append(Below(t), [Top(t) EXCEPT !.pc = "store"])]
    /\ UNCHANGED <<input, max_threads, phase, THREAD_QUOTA_IN_USE, EXECUTION_CANCELLED>>

\* parallel_solve, lines 154-155.
StoreCancelled(t) ==
    /\ Running(t)
    /\ Top(t).pc = "store"
    /\ EXECUTION_CANCELLED' = TRUE
    /\ threads' = [threads EXCEPT ![t] = Resume(@, returned(Below(t), TRUE))]
    /\ UNCHANGED <<input, max_threads, phase, THREAD_QUOTA_IN_USE, output>>

\* threads_granted without the quota already in use: every request is measured
\* against max_threads alone.
threads_granted_ignoring_use(max, in_use, extra_threads_to_request) ==
    IF max < extra_threads_to_request THEN max ELSE extra_threads_to_request

\* threads_granted with the calling thread left out of the quota in use.
threads_granted_uncounted_caller(max, in_use, extra_threads_to_request) ==
    LET thread_quota_available == IF max - (in_use - 1) > 0 THEN max - (in_use - 1) ELSE 0
    IN  IF thread_quota_available < extra_threads_to_request
        THEN thread_quota_available ELSE extra_threads_to_request

\* extra_threads_available of lines 168-174, from the value fetch_add returned.
threads_granted(max, in_use, extra_threads_to_request) ==
    LET thread_quota_available == IF max - in_use > 0 THEN max - in_use ELSE 0
    IN  IF thread_quota_available < extra_threads_to_request
        THEN thread_quota_available ELSE extra_threads_to_request

\* Reserve that requests one thread per possibility, the current thread not accounted for.
ReserveWholeRequest(t) ==
    /\ Running(t)
    /\ Top(t).pc = "reserve"
    /\ LET f == Top(t)
           extra_threads_to_request == f.state.board[f.row][f.col].num_possible
           extra_threads_available ==
               threads_granted(max_threads, THREAD_QUOTA_IN_USE, extra_threads_to_request)
           overflow == IF extra_threads_to_request - extra_threads_available > 0
                       THEN extra_threads_to_request - extra_threads_available ELSE 0
           g == [f EXCEPT !.extra_threads_available = extra_threads_available,
                          !.overflow = overflow, !.sln_idx = 0]
       IN  /\ THREAD_QUOTA_IN_USE' = THREAD_QUOTA_IN_USE + extra_threads_to_request
           /\ threads' = [threads EXCEPT ![t] =
                  IF overflow > 0
                  THEN [@ EXCEPT !.stack = Append(Below(t), [g EXCEPT !.pc = "release"])]
                  ELSE Resume(@, continued(Below(t), g))]
    /\ UNCHANGED <<input, max_threads, phase, EXECUTION_CANCELLED, output>>

\* parallel_solve_impl, lines 168-176: the first fetch_add and the arithmetic on its result.
Reserve(t) ==
    /\ Running(t)
    /\ Top(t).pc = "reserve"
    /\ LET f == Top(t)
           extra_threads_to_request == f.state.board[f.row][f.col].num_possible - 1
           extra_threads_available ==
               threads_granted(max_threads, THREAD_QUOTA_IN_USE, extra_threads_to_request)
           overflow == IF extra_threads_to_request - extra_threads_available > 0
                       THEN extra_threads_to_request - extra_threads_available ELSE 0
           g == [f EXCEPT !.extra_threads_available = extra_threads_available,
                          !.overflow = overflow, !.sln_idx = 0]
       IN  /\ THREAD_QUOTA_IN_USE' = THREAD_QUOTA_IN_USE + extra_threads_to_request
           /\ threads' = [threads EXCEPT ![t] =
                  IF overflow > 0
                  THEN [@ EXCEPT !.stack = Append(Below(t), [g EXCEPT !.pc = "release"])]
                  ELSE Resume(@, continued(Below(t), g))]
    /\ UNCHANGED <<input, max_threads, phase, EXECUTION_CANCELLED, output>>

\* Release that gives nothing back: the fetch_add(-overflow) is left out.
ReleaseOmitted(t) ==
    /\ Running(t)
    /\ Top(t).pc = "release"
    /\ threads' = [threads EXCEPT ![t] = Resume(@, continued(Below(t), Top(t)))]
    /\ UNCHANGED <<input, max_threads, phase, THREAD_QUOTA_IN_USE, EXECUTION_CANCELLED, output>>

\* parallel_solve_impl, line 177.
Release(t) ==
    /\ Running(t)
    /\ Top(t).pc = "release"
    /\ THREAD_QUOTA_IN_USE' = THREAD_QUOTA_IN_USE - Top(t).overflow
    /\ threads' = [threads EXCEPT ![t] = Resume(@, continued(Below(t), Top(t)))]
    /\ UNCHANGED <<input, max_threads, phase, EXECUTION_CANCELLED, output>>

\* state_copy without the call of propagate_solution: the clone alone.
state_copy_unsettled(f) == f.state

\* state_copy of lines 186-187; the value propagate_solution returns is dropped.
state_copy(f) == propagate_solution(f.state, f.row, f.col, f.sln_idx + 1).state

\* parallel_solve_impl, lines 190-196: the candidate goes to a new thread.
Spawn(t) ==
    /\ Running(t)
    /\ Top(t).pc = "loop"
    /\ Top(t).extra_threads_available > 0
    /\ LET f == Top(t)
           child == Len(threads) + 1
           g == [f EXCEPT !.extra_threads_available = @ - 1,
                          !.child_threads = Append(@, child),
                          !.sln_idx = @ + 1]
       IN  threads' = Append([threads EXCEPT ![t] = Resume(@, continued(Below(t), g))],
                             NewThread(state_copy(f), f.row, f.col + 1))
    /\ UNCHANGED <<input, max_threads, phase, THREAD_QUOTA_IN_USE, EXECUTION_CANCELLED, output>>

\* Call that waits for quota instead of searching the candidate in this thread.
CallWhenQuotaFree(t) ==
    /\ Running(t)
    /\ Top(t).pc = "loop"
    /\ Top(t).extra_threads_available <= 0
    /\ THREAD_QUOTA_IN_USE < max_threads
    /\ LET f == Top(t)
       IN  threads' = [threads EXCEPT ![t].stack =
               Append(Append(Below(t), [f EXCEPT !.pc = "call"]),
                      NewFrame(state_copy(f), f.row, f.col + 1))]
    /\ UNCHANGED <<input, max_threads, phase, THREAD_QUOTA_IN_USE, EXECUTION_CANCELLED, output>>

\* parallel_solve_impl, lines 197-199: the candidate is searched in this thread.
Call(t) ==
    /\ Running(t)
    /\ Top(t).pc = "loop"
    /\ Top(t).extra_threads_available <= 0
    /\ LET f == Top(t)
       IN  threads' = [threads EXCEPT ![t].stack =
               Append(Append(Below(t), [f EXCEPT !.pc = "call"]),
                      NewFrame(state_copy(f), f.row, f.col + 1))]
    /\ UNCHANGED <<input, max_threads, phase, THREAD_QUOTA_IN_USE, EXECUTION_CANCELLED, output>>

\* Join that drops what the children return: the branch fails once all are joined.
JoinDroppingResult(t) ==
    /\ Running(t)
    /\ Top(t).pc = "join"
    /\ LET f == Top(t)
           child == threads[Head(f.child_threads)]
           left == Tail(f.child_threads)
       IN  /\ child.status \in {"finished", "panicked"}
           /\ threads' = [threads EXCEPT ![t] =
                  IF left = <<>> THEN Resume(@, returned(Below(t), FALSE))
                  ELSE [@ EXCEPT !.stack = Append(Below(t), [f EXCEPT !.child_threads = left])]]
    /\ UNCHANGED <<input, max_threads, phase, THREAD_QUOTA_IN_USE, EXECUTION_CANCELLED, output>>

\* Join that does not wait: a child still running is taken to have returned false.
JoinWithoutWaiting(t) ==
    /\ Running(t)
    /\ Top(t).pc = "join"
    /\ LET f == Top(t)
           child == threads[Head(f.child_threads)]
           left == Tail(f.child_threads)
       IN  threads' = [threads EXCEPT ![t] =
               IF child.status = "panicked" THEN [@ EXCEPT !.status = "panicked"]
               ELSE IF child.status = "finished" /\ child.result
               THEN Resume(@, returned(Below(t), TRUE))
               ELSE IF left = <<>> THEN Resume(@, returned(Below(t), FALSE))
               ELSE [@ EXCEPT !.stack = Append(Below(t), [f EXCEPT !.child_threads = left])]]
    /\ UNCHANGED <<input, max_threads, phase, THREAD_QUOTA_IN_USE, EXECUTION_CANCELLED, output>>

\* parallel_solve_impl, lines 206-211: join the next child; unwrap panics on a child's panic.
Join(t) ==
    /\ Running(t)
    /\ Top(t).pc = "join"
    /\ LET f == Top(t)
           child == threads[Head(f.child_threads)]
           left == Tail(f.child_threads)
       IN  /\ child.status \in {"finished", "panicked"}
           /\ threads' = [threads EXCEPT ![t] =
                  IF child.status = "panicked" THEN [@ EXCEPT !.status = "panicked"]
                  ELSE IF child.result THEN Resume(@, returned(Below(t), TRUE))
                  ELSE IF left = <<>> THEN Resume(@, returned(Below(t), FALSE))
                  ELSE [@ EXCEPT !.stack = Append(Below(t), [f EXCEPT !.child_threads = left])]]
    /\ UNCHANGED <<input, max_threads, phase, THREAD_QUOTA_IN_USE, EXECUTION_CANCELLED, output>>

\* Finish without the fetch_add(-1) of the closure.
FinishKeepingQuota(t) ==
    /\ phase = "solve"
    /\ t \in 2 .. Len(threads)
    /\ threads[t].status = "returned"
    /\ threads' = [threads EXCEPT ![t].status = "finished"]
    /\ UNCHANGED <<input, max_threads, phase, THREAD_QUOTA_IN_USE, EXECUTION_CANCELLED, output>>

\* The spawned closure, lines 194-195: give the quota back and end with the result.
Finish(t) ==
    /\ phase = "solve"
    /\ t \in 2 .. Len(threads)
    /\ threads[t].status = "returned"
    /\ THREAD_QUOTA_IN_USE' = THREAD_QUOTA_IN_USE - 1
    /\ threads' = [threads EXCEPT ![t].status = "finished"]
    /\ UNCHANGED <<input, max_threads, phase, EXECUTION_CANCELLED, output>>

\* main, lines 26-27: parallel_solve has returned (or panicked) in the main thread; the
\* process ends, and the threads still running end with it.
Exit ==
    /\ phase = "solve"
    /\ threads[1].status \in {"returned", "panicked"}
    /\ phase' = "exited"
    /\ UNCHANGED <<input, max_threads, threads, THREAD_QUOTA_IN_USE, EXECUTION_CANCELLED, output>>

Next ==
    \/ Populate
    \/ \E t \in 1 .. Len(threads) : CancelCheck(t)
    \/ \E t \in 1 .. Len(threads) : PrintBoard(t)
    \/ \E t \in 1 .. Len(threads) : StoreCancelled(t)
    \/ \E t \in 1 .. Len(threads) : Reserve(t)
    \/ \E t \in 1 .. Len(threads) : Release(t)
    \/ \E t \in 1 .. Len(threads) : Spawn(t)
    \/ \E t \in 1 .. Len(threads) : Call(t)
    \/ \E t \in 1 .. Len(threads) : Join(t)
    \/ \E t \in 1 .. Len(threads) : Finish(t)
    \/ Exit

Spec == Init /\ [][Next]_vars

\* The search with no quota to spare (max_threads = 1), as a function of the state:
\* parallel_solve and the sequential arm of parallel_solve_impl.
RECURSIVE seq_solve(_, _, _), seq_loop(_, _, _, _)
seq_solve(st, row, col) ==
    IF st.unsolved_squares > 0
    THEN LET n == first_unsolved(st, row, col)
         IN  IF n = DIM * DIM \/ ~is_valid(st.board[n \div DIM][n % DIM])
             THEN [found |-> FALSE, printed |-> <<>>]
             ELSE seq_loop(st, n \div DIM, n % DIM, 0)
    ELSE [found |-> TRUE, printed |-> <<Printed(st)>>]
seq_loop(st, row, col, sln_idx) ==
    IF sln_idx >= DIM THEN [found |-> FALSE, printed |-> <<>>]
    ELSE IF ~st.board[row][col].possible[sln_idx] THEN seq_loop(st, row, col, sln_idx + 1)
    ELSE LET r == seq_solve(propagate_solution(st, row, col, sln_idx + 1).state, row, col + 1)
         IN  IF r.found THEN r ELSE seq_loop(st, row, col, sln_idx + 1)

(***************************************************************************)
(* Vocabulary of the properties                                            *)
(***************************************************************************)

Clue(inp, r, c) == inp[r * DIM + c + 1]

Squares == Idx \X Idx

Peers(a, b) ==
    /\ a # b
    /\ \/ a[1] = b[1]
       \/ a[2] = b[2]
       \/ /\ sub_board_offset(a[1]) = sub_board_offset(b[1])
          /\ sub_board_offset(a[2]) = sub_board_offset(b[2])

\* Two peer squares carry the same clue.
PeerClash(inp) ==
    \E a \in Squares, b \in Squares :
        Peers(a, b) /\ Clue(inp, a[1], a[2]) # 0 /\ Clue(inp, a[1], a[2]) = Clue(inp, b[1], b[2])

\* Two squares of one row carry the same clue.
RowClash(inp) ==
    \E r \in Idx, c \in Idx, d \in Idx :
        c # d /\ Clue(inp, r, c) # 0 /\ Clue(inp, r, c) = Clue(inp, r, d)

\* A grid is a function from rows to functions from columns to values, as Printed(st).board.
ValidGrid(g) ==
    \A a \in Squares, b \in Squares : Peers(a, b) => g[a[1]][a[2]] # g[b[1]][b[2]]

Agrees(g, inp) == \A r \in Idx, c \in Idx : Clue(inp, r, c) # 0 => g[r][c] = Clue(inp, r, c)

\* The values no clue of a peer of position k rules out.
Allowed(inp, k) ==
    {v \in 1 .. DIM :
        \A m \in 1 .. (DIM * DIM) :
            Peers(<<(k - 1) \div DIM, (k - 1) % DIM>>, <<(m - 1) \div DIM, (m - 1) % DIM>>)
                => inp[m] # v}

\* The ways to fill the positions from k on that carry no clue, no value meeting
\* itself in a row, column or sub-board.
RECURSIVE Completions(_, _)
Completions(inp, k) ==
    IF k > DIM * DIM THEN {inp}
    ELSE IF inp[k] # 0 THEN Completions(inp, k + 1)
    ELSE UNION {Completions([inp EXCEPT ![k] = v], k + 1) : v \in Allowed(inp, k)}

\* The solutions of an input: the complete valid grids that keep its clues.
Solutions(inp) ==
    IF PeerClash(inp) THEN {}
    ELSE {[r \in Idx |-> [c \in Idx |-> Clue(full, r, c)]] : full \in Completions(inp, 1)}

MainReturned == phase \in {"solve", "exited"} /\ threads[1].status = "returned"

\* The spawned threads that have not finished.
Unfinished == {t \in 2 .. Len(threads) : threads[t].status \in {"running", "returned"}}

\* Every activation on every thread's stack, as <<thread, depth>>.
Frames == UNION {{<<t, k>> : k \in 1 .. Len(threads[t].stack)} : t \in 1 .. Len(threads)}

FrameAt(tk) == threads[tk[1]].stack[tk[2]]

\* The boards written so far.
Boards == {output[i].printed : i \in 1 .. Len(output)}

(***************************************************************************)
(* Properties                                                              *)
(***************************************************************************)

\* C1: while the search runs, the main thread plus the spawned threads that have
\* not finished are never more than max_threads.
C1_WorkersWithinMax ==
    phase = "solve" => 1 + Cardinality(Unfinished) <= max_threads

\* As many threads as max_threads allows are alive at once, one of them spawned by
\* a spawned thread or beside another.
C1_Witness ==
    /\ phase = "solve"
    /\ max_threads = MaxThreads
    /\ 1 + Cardinality(Unfinished) = max_threads
    /\ \E t \in Unfinished : threads[t].status = "running"

\* C2: when no two peer squares of the input carry the same clue, every board the
\* search prints is complete, has each value once in every row, column and
\* sub-board, and keeps every clue.
C2_PrintedBoardsAreSolutions ==
    ~PeerClash(input) =>
        \A b \in Boards :
            /\ b.unsolved_squares = 0
            /\ \A r \in Idx, c \in Idx : b.board[r][c] \in 1 .. DIM
            /\ ValidGrid(b.board)
            /\ Agrees(b.board, input)

\* A board has been printed for an input without clashing clues that left the
\* search squares to fill.
C2_Witness ==
    /\ ~PeerClash(input)
    /\ output # <<>>
    /\ \E t \in 1 .. Len(threads) : Len(threads[t].stack) > 1

\* C3: for an input with exactly one solution and max_threads = 1, the search
\* returns true having printed that solution and nothing else.
C3_SequentialFindsTheSolution ==
    (max_threads = 1 /\ MainReturned /\ Cardinality(Solutions(input)) = 1) =>
        /\ threads[1].result
        /\ Len(output) = 1
        /\ output[1].printed.unsolved_squares = 0
        /\ output[1].printed.board \in Solutions(input)

\* The sequential search has returned on a uniquely solvable input.
C3_Witness ==
    /\ max_threads = 1
    /\ MainReturned
    /\ Cardinality(Solutions(input)) = 1
    /\ threads[1].result

\* C4: for an input with exactly one solution, under any max_threads and any
\* schedule, the root call returns what the search without spare quota returns and
\* the same single board has been printed.
C4_SameOutcomeAsSequential ==
    (MainReturned /\ Cardinality(Solutions(input)) = 1) =>
        LET seq == seq_solve(populate_board_using_input(input).state, 0, 0)
        IN  /\ seq.found
            /\ threads[1].result = seq.found
            /\ [i \in 1 .. Len(output) |-> output[i].printed] = seq.printed

\* The root call has returned true on a uniquely solvable input whose board was
\* printed by a spawned thread after another call had returned false on seeing the flag.
C4_Witness ==
    /\ MainReturned
    /\ max_threads > 1
    /\ Cardinality(Solutions(input)) = 1
    /\ threads[1].result
    /\ Len(output) = 1
    /\ output[1].by # 1

\* A step of some thread of the search.
ThreadStep ==
    \E t \in 1 .. Len(threads) :
        \/ CancelCheck(t)
        \/ PrintBoard(t)
        \/ StoreCancelled(t)
        \/ Reserve(t)
        \/ Release(t)
        \/ Join(t)
        \/ Finish(t)
        \/ Spawn(t)
        \/ Call(t)

\* The search under fair scheduling: while some thread can take a step, one does.
LiveSpec == Spec /\ WF_vars(ThreadStep)

\* C5: once the search has started, the root call eventually returns.
C5_RootEventuallyReturns ==
    (phase = "solve") ~> MainReturned

\* A candidate beyond the quota granted is being searched in the calling thread.
C5_Witness ==
    \E tk \in Frames :
        /\ FrameAt(tk).pc = "call"
        /\ FrameAt(tk).overflow > 0

\* C6: for an input that has no solution, no board is ever printed, the flag is
\* never set and the root call, once it returns, returns false.
C6_NoSolutionMeansFailure ==
    Solutions(input) = {} =>
        /\ output = <<>>
        /\ ~EXECUTION_CANCELLED
        /\ (MainReturned => ~threads[1].result)

\* C7: for an input with the same clue twice in one row and max_threads = 1, no
\* board is ever printed and the root call, once it returns, returns false.
C7_RowClashMeansFailure ==
    (RowClash(input) /\ max_threads = 1) =>
        /\ output = <<>>
        /\ (MainReturned => ~threads[1].result)

\* C8: with max_threads = 1 no thread is ever spawned: every activation has been
\* granted no extra thread and holds no child.
C8_SingleThreadNeverSpawns ==
    max_threads = 1 =>
        /\ Len(threads) <= 1
        /\ \A tk \in Frames :
               /\ FrameAt(tk).extra_threads_available = 0
               /\ FrameAt(tk).child_threads = <<>>

\* With max_threads = 1, a square with several candidates is past its first
\* candidate, which failed, and is searching the next one in the main thread.
C8_Witness ==
    /\ max_threads = 1
    /\ \E tk \in Frames :
           LET f == FrameAt(tk)
           IN  /\ f.pc = "call"
               /\ f.state.board[f.row][f.col].num_possible >= 2
               /\ f.overflow >= 1
               /\ \E i \in 0 .. (f.sln_idx - 1) : f.state.board[f.row][f.col].possible[i]

\* C9: at most one thread ever reaches the branch of parallel_solve that prints a
\* board and sets the flag.
C9_AtMostOneSuccess ==
    Len(output) <= 1

\* C10 as claimed: a thread stores true to the flag before it prints, so no thread
\* whose board is in the output is still about to store.
C10_StoreBeforePrint ==
    \A i \in 1 .. Len(output) :
        LET t == output[i].by
        IN  ~(threads[t].status = "running" /\ Top(t).pc = "store")

\* C10 as amended: a thread prints its board before it stores true to the flag, so
\* the flag is set only when a board is in the output, and a thread about to store
\* has its board in the output.
C10_PrintBeforeStore ==
    /\ EXECUTION_CANCELLED => output # <<>>
    /\ \A t \in 1 .. Len(threads) :
           (threads[t].status = "running" /\ Top(t).pc = "store") =>
               \E i \in 1 .. Len(output) :
                   output[i] = [by |-> t, printed |-> Printed(Top(t).state)]

\* A thread has stored true to the flag.
C10_Witness ==
    /\ EXECUTION_CANCELLED
    /\ \E t \in 1 .. Len(threads) : threads[t].result

\* The activation at depth k of thread t returns in this step.
Returns(t, k) ==
    /\ k \in 1 .. Len(threads[t].stack)
    /\ Len(threads'[t].stack) < k

\* The threads the activation at depth k of thread t spawned and has not joined.
Unjoined(t, k) ==
    {threads[t].stack[k].child_threads[i] : i \in 1 .. Len(threads[t].stack[k].child_threads)}

\* The step ends the call of thread t that is returning with true.
ReturnsTrue(t) == threads'[t].status = "returned" /\ threads'[t].result

Overreserved == {tk \in Frames : FrameAt(tk).pc = "release"}

\* C12: whenever no thread is between its fetch_add of the request and its
\* fetch_add of minus the overflow, THREAD_QUOTA_IN_USE is at most max_threads.
C12_QuotaWithinMax ==
    (phase = "solve" /\ Overreserved = {}) => THREAD_QUOTA_IN_USE <= max_threads

\* The whole quota is in use, outside every over-reservation: a granted thread was
\* spawned and is running, and a later request was cut down and its overflow released.
C12_Witness ==
    /\ phase = "solve"
    /\ Overreserved = {}
    /\ max_threads > 1
    /\ THREAD_QUOTA_IN_USE = max_threads
    /\ \E t \in 2 .. Len(threads) : threads[t].status = "running"
    /\ \E tk \in Frames : FrameAt(tk).overflow > 0

\* The squares of a state that have no solution.
Unsettled(st) == {sq \in Squares : st.board[sq[1]][sq[2]].solution = 0}

\* The states the program holds: the one each activation was called with and, when
\* the assert! of populate_board_using_input failed, the one it failed on.
HeldStates ==
    {FrameAt(tk).state : tk \in Frames}
        \cup (IF phase = "aborted" THEN {populate_board_using_input(input).state} ELSE {})

\* C13: in every state built by populating the givens and by the calls of
\* propagate_solution the search makes, whatever they return, unsolved_squares is
\* the number of squares whose solution is 0.
C13_CountMatchesUnsettled ==
    \A st \in HeldStates : st.unsolved_squares = Cardinality(Unsettled(st))

\* The search is working on a state left by a call of propagate_solution that
\* returned false: a square of it has no solution and no possibility.
C13_Witness ==
    \E tk \in Frames :
        /\ tk[2] > 1
        /\ \E sq \in Unsettled(FrameAt(tk).state) :
               FrameAt(tk).state.board[sq[1]][sq[2]].num_possible = 0

\* The activations waiting for the sequential call they made for a candidate.
CallsMade == {tk \in Frames : FrameAt(tk).pc = "call"}

\* The activation the call of tk started: its state is the state_copy that
\* propagate_solution left.
Callee(tk) == threads[tk[1]].stack[tk[2] + 1]

\* No peer of the square sq has the value v among its possibilities.
PeersCleared(st, sq, v) ==
    \A p \in Squares : Peers(sq, p) => ~st.board[p[1]][p[2]].possible[v - 1]

\* What the call of propagate_solution made by the activation tk returned.
ReturnedValid(tk) ==
    propagate_solution(FrameAt(tk).state, FrameAt(tk).row, FrameAt(tk).col,
                       FrameAt(tk).sln_idx + 1).ok

\* The calls just made: the activation called is at its entry.
CallsJustMade == {tk \in CallsMade : Callee(tk).pc = "cancel_check"}

C15_ContradictionNeverAborts ==
    /\ phase # "aborted"
    /\ \A t \in 1 .. Len(threads) : threads[t].status # "panicked"

Min(a, b) == IF a < b THEN a ELSE b

Max(a, b) == IF a > b THEN a ELSE b

\* Thread t makes the first fetch_add of parallel_solve_impl in this step.
Reserves(t) ==
    /\ Running(t)
    /\ Top(t).pc = "reserve"
    /\ threads'[t] # threads[t]

\* The possibilities of the square the activation f branches on: how many there
\* are, and how many come before its sln_idx.
Candidates(f) == f.state.board[f.row][f.col].num_possible

Dispatched(f) ==
    Cardinality({i \in 0 .. (f.sln_idx - 1) : f.state.board[f.row][f.col].possible[i]})

\* extra_threads_available as the first fetch_add of thread t left it.
Granted(t) == threads'[t].stack[Len(threads'[t].stack)].extra_threads_available

\* C16 as claimed: at a square with k possibilities, with p the value the fetch_add
\* returns, the counter grows by k and min(max(max_threads - p, 0), k) threads are
\* granted.
C16_GrantsUpToAllCandidates ==
    [][\A t \in 1 .. Len(threads) :
           Reserves(t) =>
               /\ THREAD_QUOTA_IN_USE' = THREAD_QUOTA_IN_USE + Candidates(Top(t))
               /\ Granted(t) = Min(Max(max_threads - THREAD_QUOTA_IN_USE, 0),
                                   Candidates(Top(t)))]_vars

\* The dispatch of the activation f so far: the candidates go to new threads while
\* granted threads are left, then to sequential calls; granted threads are the
\* request, Candidates(f) - 1, less the overflow.
DispatchedAsGranted(f) ==
    /\ f.pc = "release" =>
           /\ f.extra_threads_available = Candidates(f) - 1 - f.overflow
           /\ f.child_threads = <<>>
    /\ f.pc = "loop" =>
           /\ Len(f.child_threads) = Min(Dispatched(f), Candidates(f) - 1 - f.overflow)
           /\ Len(f.child_threads) + f.extra_threads_available = Candidates(f) - 1 - f.overflow
    /\ f.pc = "call" =>
           /\ f.extra_threads_available = 0
           /\ Len(f.child_threads) = Candidates(f) - 1 - f.overflow
           /\ Dispatched(f) >= Len(f.child_threads)
    /\ f.pc = "join" =>
           /\ f.extra_threads_available = 0
           /\ Dispatched(f) = Candidates(f)

\* C16 as amended: at a square with k possibilities, with p the value the fetch_add
\* returns, the counter grows by k - 1 and min(max(max_threads - p, 0), k - 1)
\* threads are granted; the first candidates, as many as threads were granted, go to
\* new threads and the others are searched in the calling thread.
C16_GrantsUpToOtherCandidates ==
    /\ [][\A t \in 1 .. Len(threads) :
              Reserves(t) =>
                  /\ THREAD_QUOTA_IN_USE' = THREAD_QUOTA_IN_USE + Candidates(Top(t)) - 1
                  /\ Granted(t) = Min(Max(max_threads - THREAD_QUOTA_IN_USE, 0),
                                      Candidates(Top(t)) - 1)]_vars
    /\ [](\A tk \in Frames : DispatchedAsGranted(FrameAt(tk)))

\* An activation was granted a thread for a square with several possibilities: one
\* candidate went to a new thread and another is searched in the calling thread.
C16_Witness ==
    \E tk \in Frames :
        /\ FrameAt(tk).pc = "call"
        /\ FrameAt(tk).child_threads # <<>>
        /\ Candidates(FrameAt(tk)) >= 2

\* The activations inside parallel_solve_impl: they enumerate the possibilities of
\* their square (row, col).
Branching == {tk \in Frames : FrameAt(tk).pc \in {"reserve", "release", "loop", "call", "join"}}

\* The squares without solution that have exactly one possibility left.
Singles(st) == {sq \in Unsettled(st) : st.board[sq[1]][sq[2]].num_possible = 1}

DeadEnd(st) == \E sq \in Unsettled(st) : st.board[sq[1]][sq[2]].num_possible = 0

\* Thread t takes a candidate from the for loop of parallel_solve_impl in this step.
Dispatches(t) ==
    /\ Running(t)
    /\ Top(t).pc = "loop"
    /\ threads'[t] # threads[t]

\* The activation the dispatch of thread t starts: on top of its stack after a
\* sequential call, at the bottom of the new thread after a spawn.
Started(t) ==
    IF Len(threads') > Len(threads)
    THEN threads'[Len(threads')].stack[1]
    ELSE threads'[t].stack[Len(threads'[t].stack)]

\* C18: when a call of propagate_solution by the search returns false, the state
\* copy it leaves is a dead end; no activation working on a dead end has
\* unsolved_squares = 0 or reaches the print, every state copied from a dead end
\* is a dead end, and every activation working on a dead end returns false.
C18_DeadEndOnlyWastesWork ==
    /\ [](\A tk \in Frames :
              DeadEnd(FrameAt(tk).state) =>
                  /\ FrameAt(tk).state.unsolved_squares > 0
                  /\ FrameAt(tk).pc \notin {"print", "store"})
    /\ [][\A t \in 1 .. Len(threads) :
              /\ Dispatches(t) =>
                     /\ Started(t).pc = "cancel_check"
                     /\ (DeadEnd(Top(t).state) \/ ~ReturnedValid(<<t, Len(threads[t].stack)>>))
                            => DeadEnd(Started(t).state)
              /\ \A k \in 1 .. Len(threads[t].stack) :
                     (Returns(t, k) /\ DeadEnd(threads[t].stack[k].state)) => ~ReturnsTrue(t)]_vars

\* A call of propagate_solution returned false and the search went on with the
\* state copy it left: the activation called with it is enumerating possibilities.
C18_Witness ==
    \E tk \in CallsMade :
        /\ ~ReturnedValid(tk)
        /\ Callee(tk).pc \in {"reserve", "release", "loop", "call", "join"}

\* The activations at the entry of parallel_solve: row and col are the arguments.
Entries == {tk \in Frames : FrameAt(tk).pc = "cancel_check"}

\* C19: at every entry of parallel_solve(state, row, col) every square before
\* (row, col) in row-major order has a solution, so the scan from (row, col) ends
\* on the square a scan from (0, 0) ends on; when unsolved_squares > 0 it ends on a
\* square of the board, and the assert!(false) after the loops is never reached.
C19_ResumptionPointSkipsOnlySettled ==
    /\ \A tk \in Entries :
           LET f == FrameAt(tk)
           IN  /\ \A sq \in Unsettled(f.state) : f.row * DIM + f.col <= sq[1] * DIM + sq[2]
               /\ first_unsolved(f.state, f.row, f.col) = first_unsolved(f.state, 0, 0)
               /\ f.state.unsolved_squares > 0 =>
                      first_unsolved(f.state, f.row, f.col) < DIM * DIM
    /\ \A t \in 1 .. Len(threads) : threads[t].status # "panicked"

\* parallel_solve is entered by a sequential call and by a spawned thread, each
\* past (0, 0), the one with squares that have a solution between its resumption
\* point and the next square without.
C19_Witness ==
    /\ \E tk \in Entries :
           LET f == FrameAt(tk)
           IN  /\ tk[2] > 1
               /\ f.state.unsolved_squares > 0
               /\ first_unsolved(f.state, f.row, f.col) > f.row * DIM + f.col
    /\ \E t \in 2 .. Len(threads) : threads[t].status = "finished"

\* What the activation tk holds of the quota beyond running threads: the threads
\* granted to it and not spawned yet, and its overflow while not released.
Held(tk) ==
    FrameAt(tk).extra_threads_available
        + (IF FrameAt(tk).pc = "release" THEN FrameAt(tk).overflow ELSE 0)

RECURSIVE TotalHeld(_)
TotalHeld(S) ==
    IF S = {} THEN 0
    ELSE LET tk == CHOOSE x \in S : TRUE
         IN  Held(tk) + TotalHeld(S \ {tk})

\* C20: THREAD_QUOTA_IN_USE is never below 1 and is always 1, plus the spawned
\* threads that have not made their fetch_add(-1), plus the threads granted and
\* not spawned yet, plus the overflows not released yet; so it is 1 again once
\* every spawned thread has finished and no activation holds any.
C20_QuotaAccountsForThreads ==
    /\ THREAD_QUOTA_IN_USE >= 1
    /\ THREAD_QUOTA_IN_USE = 1 + Cardinality(Unfinished) + TotalHeld(Frames)
    /\ (Unfinished = {} /\ \A tk \in Frames : Held(tk) = 0) => THREAD_QUOTA_IN_USE = 1

\* Threads were spawned and have all made their fetch_add(-1), and the counter is
\* back to 1 while the main thread is still in the search.
C20_Witness ==
    /\ phase = "solve"
    /\ Len(threads) > 1
    /\ Unfinished = {}
    /\ THREAD_QUOTA_IN_USE = 1
    /\ threads[1].status = "running"

=============================================================================
